---- MODULE Spec2Model ----
(***************************************************************************)
(* A model of the tashi_token ledger (src/src/lib.rs): the persisted       *)
(* TokenState, the initializer and the four actions transfer,              *)
(* transfer_from, approve and approve_relative.  The 128-bit amounts of    *)
(* the contract are modelled as W-bit integers with the same checked       *)
(* arithmetic, so that every overflow and conversion branch is reachable.  *)
(***************************************************************************)
EXTENDS Integers, FiniteSets, Sequences, TLC

\* ---- bounds ----
W == 3         \* bit width standing for the 128 bits of u128 / i128
NumAddr == 3   \* number of distinct addresses
MaxSteps == 2  \* number of action invocations after genesis

U128_MAX == 2^W - 1
I128_MAX == 2^(W - 1) - 1
I128_MIN == 0 - 2^(W - 1)

Address == 1..NumAddr
U128 == 0..U128_MAX
I128 == I128_MIN..I128_MAX
Names == {"Tashi"}
Symbols == {"TSH"}
Decimals == {18}
NoAddress == 0
\* The deploying address; the addresses are interchangeable, so one is fixed.
Creators == {CHOOSE a \in Address : TRUE}

VARIABLES state, pre, last, pc, steps
vars == <<state, pre, last, pc, steps>>

\* ---- SortedVecMap: a map is a function whose DOMAIN is its key set ----
EmptyMap == [k \in {} |-> 0]

MapGet(m, k, default) == IF k \in DOMAIN m THEN m[k] ELSE default

MapInsert(m, k, v) == [x \in (DOMAIN m) \cup {k} |-> IF x = k THEN v ELSE m[x]]

MapRemove(m, k) == [x \in (DOMAIN m) \ {k} |-> m[x]]

insert_balance(m, key, amount) ==
    LET zero == amount - amount
    IN  IF amount = zero THEN MapRemove(m, key) ELSE MapInsert(m, key, amount)

\* ---- checked arithmetic and conversions ----
Some(v) == [some |-> TRUE, val |-> v]
None == [some |-> FALSE, val |-> 0]

\* Variant: the subtraction saturates at 0 instead of failing.
saturating_sub(a, b) == IF a - b < 0 THEN Some(0) ELSE Some(a - b)

checked_sub(a, b) == IF a - b < 0 THEN None ELSE Some(a - b)

\* Variant: the addition wraps around at the width.
wrapping_add(a, b) == Some((a + b) % (U128_MAX + 1))

checked_add(a, b) == IF a + b > U128_MAX THEN None ELSE Some(a + b)

checked_add_i128(a, b) ==
    IF a + b > I128_MAX \/ a + b < I128_MIN THEN None ELSE Some(a + b)

\* Variant: the absolute value of the minimum wraps to the minimum itself.
wrapping_abs(a) ==
    IF a = I128_MIN THEN Some(I128_MIN) ELSE Some(IF a < 0 THEN 0 - a ELSE a)

checked_abs(a) == IF a = I128_MIN THEN None ELSE Some(IF a < 0 THEN 0 - a ELSE a)

\* Variant: a cast that reinterprets the bits instead of checking the range.
as_i128(u) == IF u > I128_MAX THEN Some(u - (U128_MAX + 1)) ELSE Some(u)

try_into_i128(u) == IF u > I128_MAX THEN None ELSE Some(u)

try_into_u128(i) == IF i < 0 THEN None ELSE Some(i)

\* ---- TokenState accessors ----
balance_of(st, owner) == MapGet(st.balances, owner, 0)

allowance(st, owner, spender) ==
    IF owner \in DOMAIN st.allowed
    THEN MapGet(st.allowed[owner], spender, 0)
    ELSE 0

\* Variant: the entry is written under the spender's key for the owner.
update_allowance_swapped(st, owner, spender, amount) ==
    LET allowed1 == IF spender \notin DOMAIN st.allowed
                    THEN MapInsert(st.allowed, spender, EmptyMap)
                    ELSE st.allowed
    IN  [st EXCEPT !.allowed =
            MapInsert(allowed1, spender, insert_balance(allowed1[spender], owner, amount))]

update_allowance(st, owner, spender, amount) ==
    LET allowed1 == IF owner \notin DOMAIN st.allowed
                    THEN MapInsert(st.allowed, owner, EmptyMap)
                    ELSE st.allowed
    IN  [st EXCEPT !.allowed =
            MapInsert(allowed1, owner, insert_balance(allowed1[owner], spender, amount))]

\* ---- outcome of one handler run: the returned state, or a panic together
\*      with the handler's local copy of the state at the panic ----
Return(st) == [ok |-> TRUE, err |-> "none", st |-> st]
Panic(e, st) == [ok |-> FALSE, err |-> e, st |-> st]

initialize(sender, total_supply, name, symbol, decimals) ==
    [total_supply |-> total_supply,
     name |-> name,
     symbol |-> symbol,
     balances |-> MapInsert(EmptyMap, sender, total_supply),
     allowed |-> EmptyMap,
     decimals |-> decimals,
     owner |-> sender]

\* Variant: the receiver's entry is overwritten with the amount instead of
\* being increased by it.
transfer_overwrite(sender, st, receiver, amount) ==
    LET sender_balance == balance_of(st, sender)
        new_sender_balance == checked_sub(sender_balance, amount)
    IN  IF ~new_sender_balance.some THEN Panic("InsufficientBalance", st)
        ELSE
        LET s1 == [st EXCEPT !.balances =
                       insert_balance(@, sender, new_sender_balance.val)]
            new_receiver_balance == checked_add(balance_of(s1, receiver), amount)
        IN  IF ~new_receiver_balance.some THEN Panic("BalanceOverflow", s1)
            ELSE Return([s1 EXCEPT !.balances = insert_balance(@, receiver, amount)])

transfer(sender, st, receiver, amount) ==
    LET sender_balance == balance_of(st, sender)
        new_sender_balance == checked_sub(sender_balance, amount)
    IN  IF ~new_sender_balance.some THEN Panic("InsufficientBalance", st)
        ELSE
        LET s1 == [st EXCEPT !.balances =
                       insert_balance(@, sender, new_sender_balance.val)]
            new_receiver_balance == checked_add(balance_of(s1, receiver), amount)
        IN  IF ~new_receiver_balance.some THEN Panic("BalanceOverflow", s1)
            ELSE Return([s1 EXCEPT !.balances =
                             insert_balance(@, receiver, new_receiver_balance.val)])

\* Variant: the conventional delegated transfer, which also debits the source.
\* Variant: the receiver is credited without the allowance being drawn down.
transfer_from_free(sender, st, from, receiver, amount) ==
    LET caller_allowance == allowance(st, from, sender)
        caller_new_allowance == checked_sub(caller_allowance, amount)
    IN  IF ~caller_new_allowance.some THEN Panic("InsufficientAllowance", st)
        ELSE
        LET new_receiver_balance == checked_add(balance_of(st, receiver), amount)
        IN  IF ~new_receiver_balance.some THEN Panic("BalanceOverflow", st)
            ELSE Return([st EXCEPT !.balances =
                             insert_balance(@, receiver, new_receiver_balance.val)])

transfer_from_debit(sender, st, from, receiver, amount) ==
    LET caller_allowance == allowance(st, from, sender)
        caller_new_allowance == checked_sub(caller_allowance, amount)
    IN  IF ~caller_new_allowance.some THEN Panic("InsufficientAllowance", st)
        ELSE
        LET s0 == update_allowance(st, from, sender, caller_new_allowance.val)
            from_balance == balance_of(s0, from)
            s1 == [s0 EXCEPT !.balances =
                       insert_balance(@, from,
                           IF from_balance < amount THEN 0 ELSE from_balance - amount)]
            new_receiver_balance == checked_add(balance_of(s1, receiver), amount)
        IN  IF ~new_receiver_balance.some THEN Panic("BalanceOverflow", s1)
            ELSE Return([s1 EXCEPT !.balances =
                             insert_balance(@, receiver, new_receiver_balance.val)])

\* Variant: the allowance is looked up with owner and spender exchanged.
transfer_from_swapped(sender, st, from, receiver, amount) ==
    LET caller_allowance == allowance(st, sender, from)
        caller_new_allowance == checked_sub(caller_allowance, amount)
    IN  IF ~caller_new_allowance.some THEN Panic("InsufficientAllowance", st)
        ELSE
        LET s1 == update_allowance(st, sender, from, caller_new_allowance.val)
            new_receiver_balance == checked_add(balance_of(s1, receiver), amount)
        IN  IF ~new_receiver_balance.some THEN Panic("BalanceOverflow", s1)
            ELSE Return([s1 EXCEPT !.balances =
                             insert_balance(@, receiver, new_receiver_balance.val)])

transfer_from(sender, st, from, receiver, amount) ==
    LET caller_allowance == allowance(st, from, sender)
        caller_new_allowance == checked_sub(caller_allowance, amount)
    IN  IF ~caller_new_allowance.some THEN Panic("InsufficientAllowance", st)
        ELSE
        LET s1 == update_allowance(st, from, sender, caller_new_allowance.val)
            new_receiver_balance == checked_add(balance_of(s1, receiver), amount)
        IN  IF ~new_receiver_balance.some THEN Panic("BalanceOverflow", s1)
            ELSE Return([s1 EXCEPT !.balances =
                             insert_balance(@, receiver, new_receiver_balance.val)])

\* Variant: the amount is added to the prior allowance instead of replacing it.
\* Variant: the approved amount is also taken out of total_supply.
approve_burn(sender, st, spender, amount) ==
    LET caller_balance == balance_of(st, sender)
        caller_new_balance == checked_sub(caller_balance, amount)
    IN  IF ~caller_new_balance.some THEN Panic("InsufficientBalance", st)
        ELSE
        LET s1 == [st EXCEPT !.balances =
                       insert_balance(@, sender, caller_new_balance.val),
                             !.total_supply = @ - amount]
        IN  Return(update_allowance(s1, sender, spender, amount))

approve_accumulate(sender, st, spender, amount) ==
    LET caller_balance == balance_of(st, sender)
        caller_new_balance == checked_sub(caller_balance, amount)
    IN  IF ~caller_new_balance.some THEN Panic("InsufficientBalance", st)
        ELSE
        LET s1 == [st EXCEPT !.balances =
                       insert_balance(@, sender, caller_new_balance.val)]
        IN  Return(update_allowance(s1, sender, spender,
                                    allowance(st, sender, spender) + amount))

approve(sender, st, spender, amount) ==
    LET caller_balance == balance_of(st, sender)
        caller_new_balance == checked_sub(caller_balance, amount)
    IN  IF ~caller_new_balance.some THEN Panic("InsufficientBalance", st)
        ELSE
        LET s1 == [st EXCEPT !.balances =
                       insert_balance(@, sender, caller_new_balance.val)]
        IN  Return(update_allowance(s1, sender, spender, amount))

\* Variant: the caller's balance moves against the allowance (a positive delta
\* debits the caller, a negative one credits it).
approve_relative_debit(sender, st, spender, delta0) ==
    LET caller_balance_result == try_into_i128(balance_of(st, sender))
        spender_allowance_result == try_into_i128(allowance(st, sender, spender))
    IN  IF ~caller_balance_result.some THEN Panic("ConversionError", st)
        ELSE IF ~spender_allowance_result.some THEN Panic("ConversionError", st)
        ELSE
        LET caller_balance == caller_balance_result.val
            spender_allowance == spender_allowance_result.val
            abs_delta == IF checked_abs(delta0).some
                         THEN checked_abs(delta0).val ELSE I128_MAX
            delta == IF delta0 < 0 /\ abs_delta >= spender_allowance
                     THEN 0 - spender_allowance
                     ELSE delta0
            allowance_sum == checked_add_i128(spender_allowance, delta)
        IN  IF ~allowance_sum.some THEN Panic("AllowanceOverflow", st)
            ELSE IF ~try_into_u128(allowance_sum.val).some
                 THEN Panic("ConversionError", st)
            ELSE
            LET s1 == update_allowance(st, sender, spender,
                                       try_into_u128(allowance_sum.val).val)
                balance_sum == checked_add_i128(caller_balance, 0 - delta)
            IN  IF ~balance_sum.some THEN Panic("BalanceOverflow", s1)
                ELSE IF ~try_into_u128(balance_sum.val).some
                     THEN Panic("ConversionError", s1)
                ELSE Return([s1 EXCEPT !.balances =
                                 insert_balance(@, sender,
                                                try_into_u128(balance_sum.val).val)])

approve_relative(sender, st, spender, delta0) ==
    LET caller_balance_result == try_into_i128(balance_of(st, sender))
        spender_allowance_result == try_into_i128(allowance(st, sender, spender))
    IN  IF ~caller_balance_result.some THEN Panic("ConversionError", st)
        ELSE IF ~spender_allowance_result.some THEN Panic("ConversionError", st)
        ELSE
        LET caller_balance == caller_balance_result.val
            spender_allowance == spender_allowance_result.val
            abs_delta == IF checked_abs(delta0).some
                         THEN checked_abs(delta0).val ELSE I128_MAX
            delta == IF delta0 < 0 /\ abs_delta >= spender_allowance
                     THEN 0 - spender_allowance
                     ELSE delta0
            allowance_sum == checked_add_i128(spender_allowance, delta)
        IN  IF ~allowance_sum.some THEN Panic("AllowanceOverflow", st)
            ELSE IF ~try_into_u128(allowance_sum.val).some
                 THEN Panic("ConversionError", st)
            ELSE
            LET s1 == update_allowance(st, sender, spender,
                                       try_into_u128(allowance_sum.val).val)
                balance_sum == checked_add_i128(caller_balance, delta)
            IN  IF ~balance_sum.some THEN Panic("BalanceOverflow", s1)
                ELSE IF ~try_into_u128(balance_sum.val).some
                     THEN Panic("ConversionError", s1)
                ELSE Return([s1 EXCEPT !.balances =
                                 insert_balance(@, sender,
                                                try_into_u128(balance_sum.val).val)])

\* The host persists the returned state; a panic discards the handler's copy.
\* Variant: the host persists the handler's copy of the state even after a
\* panic.
commit_always(st, r) == r.st

Commit(st, r) == IF r.ok THEN r.st ELSE st

Call(op, sender, from, to, amount, r) ==
    [op |-> op, sender |-> sender, from |-> from, to |-> to,
     amount |-> amount, ok |-> r.ok, err |-> r.err, local |-> r.st]

NoCall(st) ==
    [op |-> "none", sender |-> NoAddress, from |-> NoAddress, to |-> NoAddress,
     amount |-> 0, ok |-> TRUE, err |-> "none", local |-> st]

\* Genesis: the state returned by the initializer, for any creator and supply.
Init ==
    \E sender \in Creators, total_supply \in U128,
       name \in Names, symbol \in Symbols, decimals \in Decimals :
        /\ state = initialize(sender, total_supply, name, symbol, decimals)
        /\ pre = state
        /\ last = Call("initialize", sender, NoAddress, NoAddress, total_supply,
                       Return(state))
        /\ pc = "returned"
        /\ steps = 0

\* The host is ready to run one more invocation.
Ready == pc = "ready" /\ steps < MaxSteps

\* One invocation: the handler runs to completion on the current state; the
\* variable pre keeps the state it was given and last the call and its outcome.
Invoke(call, r) ==
    /\ state' = Commit(state, r)
    /\ pre' = state
    /\ last' = call
    /\ pc' = "returned"
    /\ steps' = steps + 1

Transfer ==
    /\ Ready
    /\ \E sender \in Address, receiver \in Address, amount \in U128 :
          LET r == transfer(sender, state, receiver, amount)
          IN  Invoke(Call("transfer", sender, NoAddress, receiver, amount, r), r)

TransferFrom ==
    /\ Ready
    /\ \E sender \in Address, from \in Address, receiver \in Address, amount \in U128 :
          LET r == transfer_from(sender, state, from, receiver, amount)
          IN  Invoke(Call("transfer_from", sender, from, receiver, amount, r), r)

Approve ==
    /\ Ready
    /\ \E sender \in Address, spender \in Address, amount \in U128 :
          LET r == approve(sender, state, spender, amount)
          IN  Invoke(Call("approve", sender, NoAddress, spender, amount, r), r)

ApproveRelative ==
    /\ Ready
    /\ \E sender \in Address, spender \in Address, delta \in I128 :
          LET r == approve_relative(sender, state, spender, delta)
          IN  Invoke(Call("approve_relative", sender, NoAddress, spender, delta, r), r)

\* The call is over: the next invocation is given the persisted state only.
NextInvocation ==
    /\ pc = "returned"
    /\ pc' = "ready"
    /\ pre' = state
    /\ last' = NoCall(state)
    /\ UNCHANGED <<state, steps>>

Next == Transfer \/ TransferFrom \/ Approve \/ ApproveRelative \/ NextInvocation

Spec == Init /\ [][Next]_vars

\* The ledger driven by transfer, transfer_from and approve only.
NextNoRelative == Transfer \/ TransferFrom \/ Approve \/ NextInvocation

SpecNoRelative == Init /\ [][NextNoRelative]_vars

\* ---- derived quantities ----
RECURSIVE SumMap(_)
SumMap(m) ==
    IF DOMAIN m = {} THEN 0
    ELSE LET k == CHOOSE x \in DOMAIN m : TRUE
         IN  m[k] + SumMap(MapRemove(m, k))

TypeOK ==
    /\ state.total_supply \in U128
    /\ DOMAIN state.balances \subseteq Address
    /\ \A k \in DOMAIN state.balances : state.balances[k] \in U128
    /\ DOMAIN state.allowed \subseteq Address
    /\ \A o \in DOMAIN state.allowed :
          /\ DOMAIN state.allowed[o] \subseteq Address
          /\ \A s \in DOMAIN state.allowed[o] : state.allowed[o][s] \in U128
    /\ steps \in 0..MaxSteps
    /\ pc \in {"ready", "returned"}
\* ---- what a completed call is compared against ----
Returned(op) == pc = "returned" /\ last.op = op

BalancesUnchangedExcept(S) ==
    \A x \in Address \ S : balance_of(state, x) = balance_of(pre, x)

AllowancesUnchangedExcept(P) ==
    \A o \in Address, s \in Address :
        <<o, s>> \notin P => allowance(state, o, s) = allowance(pre, o, s)

\* C1: in every reachable state the sum of all stored balances equals
\* total_supply.
C1_SupplyConservation == SumMap(state.balances) = state.total_supply

\* C2: in every reachable state, genesis included, no entry of the balances
\* map and no entry of any inner allowances map stores the value 0.
C2_NoZeroEntry ==
    /\ \A k \in DOMAIN state.balances : state.balances[k] # 0
    /\ \A o \in DOMAIN state.allowed :
          \A s \in DOMAIN state.allowed[o] : state.allowed[o][s] # 0

\* C3: a transfer with caller # to, amount <= balance_of(caller) and no
\* overflow of the receiver succeeds, debits the caller by amount, credits the
\* receiver by amount and leaves every other balance, every allowance and
\* total_supply unchanged.
C3_TransferEffect ==
    ( /\ Returned("transfer")
      /\ last.sender # last.to
      /\ last.amount <= balance_of(pre, last.sender)
      /\ balance_of(pre, last.to) + last.amount <= U128_MAX )
    => /\ last.ok
       /\ balance_of(state, last.sender) = balance_of(pre, last.sender) - last.amount
       /\ balance_of(state, last.to) = balance_of(pre, last.to) + last.amount
       /\ BalancesUnchangedExcept({last.sender, last.to})
       /\ AllowancesUnchangedExcept({})
       /\ state.total_supply = pre.total_supply

C3_Witness ==
    /\ Returned("transfer") /\ last.ok
    /\ last.sender # last.to
    /\ last.amount > 0
    /\ balance_of(state, last.sender) > 0
    /\ \E x \in Address \ {last.sender, last.to} : balance_of(pre, x) > 0

\* C4: a transfer with amount > balance_of(caller) aborts with
\* InsufficientBalance and the state is exactly the state before the call.
C4_TransferInsufficient ==
    ( Returned("transfer") /\ last.amount > balance_of(pre, last.sender) )
    => /\ ~last.ok
       /\ last.err = "InsufficientBalance"
       /\ state = pre

C4_Witness ==
    /\ Returned("transfer") /\ ~last.ok
    /\ last.err = "InsufficientBalance"
    /\ balance_of(pre, last.sender) > 0
    /\ last.amount > balance_of(pre, last.sender)
    /\ last.sender # last.to

\* C5: a transfer to the caller itself with amount <= balance_of(caller)
\* succeeds and leaves the whole state unchanged.
C5_SelfTransferNeutral ==
    ( /\ Returned("transfer")
      /\ last.sender = last.to
      /\ last.amount <= balance_of(pre, last.sender) )
    => /\ last.ok
       /\ state = pre

\* C6: a transfer_from with amount <= allowance(from, caller) and no overflow
\* of the receiver succeeds, lowers allowance(from, caller) by amount, credits
\* the receiver by amount, leaves the balance of from unchanged when
\* from # to, and leaves all other balances and allowances unchanged.
C6_TransferFromEffect ==
    ( /\ Returned("transfer_from")
      /\ last.amount <= allowance(pre, last.from, last.sender)
      /\ balance_of(pre, last.to) + last.amount <= U128_MAX )
    => /\ last.ok
       /\ allowance(state, last.from, last.sender) =
              allowance(pre, last.from, last.sender) - last.amount
       /\ balance_of(state, last.to) = balance_of(pre, last.to) + last.amount
       /\ (last.from # last.to =>
              balance_of(state, last.from) = balance_of(pre, last.from))
       /\ BalancesUnchangedExcept({last.to})
       /\ AllowancesUnchangedExcept({<<last.from, last.sender>>})

C6_Witness ==
    /\ Returned("transfer_from") /\ last.ok
    /\ last.amount > 0
    /\ Cardinality({last.sender, last.from, last.to}) = 3
    /\ balance_of(pre, last.from) > 0
    /\ allowance(state, last.from, last.sender) > 0

\* C7: a transfer_from with amount > allowance(from, caller) aborts with
\* InsufficientAllowance and leaves the state unchanged; a caller without
\* allowance credits nobody.
C7_TransferFromInsufficient ==
    ( Returned("transfer_from")
      /\ last.amount > allowance(pre, last.from, last.sender) )
    => /\ ~last.ok
       /\ last.err = "InsufficientAllowance"
       /\ state = pre

C7_Witness ==
    /\ Returned("transfer_from") /\ ~last.ok
    /\ last.err = "InsufficientAllowance"
    /\ allowance(pre, last.from, last.sender) = 0
    /\ allowance(pre, last.sender, last.from) > 0
    /\ balance_of(pre, last.from) >= last.amount
    /\ last.amount > 0

\* C8: an approve with amount <= balance_of(caller) succeeds, debits the
\* caller by amount and sets allowance(caller, spender) to amount whatever the
\* prior allowance was; the prior allowance is not credited back.
C8_ApproveOverwrites ==
    ( Returned("approve") /\ last.amount <= balance_of(pre, last.sender) )
    => /\ last.ok
       /\ balance_of(state, last.sender) = balance_of(pre, last.sender) - last.amount
       /\ allowance(state, last.sender, last.to) = last.amount

C8_Witness ==
    /\ Returned("approve") /\ last.ok
    /\ allowance(pre, last.sender, last.to) > 0
    /\ last.amount > 0
    /\ last.amount # allowance(pre, last.sender, last.to)

\* C9: an approve_relative with a negative delta whose magnitude is at least
\* A = allowance(caller, spender) succeeds, removes the allowance entry and
\* increases balance_of(caller) by exactly A.  Stated for a balance and an
\* allowance that fit the signed range, where the handler does not stop at the
\* conversions of its first two statements.
C9_ClampReturnsAllowance ==
    ( /\ Returned("approve_relative")
      /\ last.amount < 0
      /\ 0 - last.amount >= allowance(pre, last.sender, last.to)
      /\ balance_of(pre, last.sender) <= I128_MAX
      /\ allowance(pre, last.sender, last.to) <= I128_MAX )
    => /\ last.ok
       /\ allowance(state, last.sender, last.to) = 0
       /\ last.to \notin DOMAIN state.allowed[last.sender]
       /\ balance_of(state, last.sender) =
              balance_of(pre, last.sender) + allowance(pre, last.sender, last.to)

\* C10: a successful approve_relative with delta > 0 raises
\* allowance(caller, spender) by delta and lowers balance_of(caller) by delta.
C10_PositiveDeltaDebits ==
    ( Returned("approve_relative") /\ last.ok /\ last.amount > 0 )
    => /\ allowance(state, last.sender, last.to) =
              allowance(pre, last.sender, last.to) + last.amount
       /\ balance_of(state, last.sender) =
              balance_of(pre, last.sender) - last.amount

\* C11: an approve_relative with delta > 0 and delta > balance_of(caller)
\* aborts and leaves the state unchanged.
C11_RelativeInsufficientBalance ==
    ( /\ Returned("approve_relative")
      /\ last.amount > 0
      /\ last.amount > balance_of(pre, last.sender) )
    => /\ ~last.ok
       /\ state = pre

C12_WitnessTransferFrom ==
    /\ Returned("transfer_from") /\ ~last.ok
    /\ last.err = "BalanceOverflow"
    /\ allowance(last.local, last.from, last.sender) =
           allowance(pre, last.from, last.sender) - last.amount
    /\ last.amount > 0

C12_WitnessApproveRelative ==
    /\ Returned("approve_relative") /\ ~last.ok
    /\ last.err \in {"BalanceOverflow", "ConversionError"}
    /\ allowance(last.local, last.sender, last.to) #
           allowance(pre, last.sender, last.to)

\* C13: in every reachable state every stored balance is <= total_supply.
C13_BalancesBounded ==
    \A k \in DOMAIN state.balances : state.balances[k] <= state.total_supply

\* C14: whatever the call and its caller c, the balance of every address other
\* than c is not decreased, and allowance(o, s) changes only when c = o in
\* approve and approve_relative, or when c = s in transfer_from, where it can
\* only decrease.
C14_NoUnauthorizedSpend ==
    pc = "returned" =>
       /\ \A x \in Address \ {last.sender} :
             balance_of(state, x) >= balance_of(pre, x)
       /\ \A o \in Address, s \in Address :
             allowance(state, o, s) # allowance(pre, o, s) =>
                \/ last.op \in {"approve", "approve_relative"} /\ o = last.sender
                \/ /\ last.op = "transfer_from"
                   /\ s = last.sender
                   /\ o = last.from
                   /\ allowance(state, o, s) < allowance(pre, o, s)

C14_Witness ==
    /\ Returned("transfer_from") /\ last.ok
    /\ last.sender # last.from
    /\ allowance(state, last.from, last.sender) <
           allowance(pre, last.from, last.sender)
    /\ balance_of(state, last.from) = balance_of(pre, last.from)
    /\ balance_of(pre, last.from) > 0

\* C15: no step changes total_supply, name, symbol, decimals or owner: they
\* keep the values given at genesis, whether a call returns or panics.
C15_ImmutableMetadata ==
    [][ /\ state'.total_supply = state.total_supply
        /\ state'.name = state.name
        /\ state'.symbol = state.symbol
        /\ state'.decimals = state.decimals
        /\ state'.owner = state.owner ]_vars

C15_Witness ==
    /\ pc = "returned"
    /\ last.op \in {"transfer", "transfer_from", "approve", "approve_relative"}
    /\ last.ok
    /\ state.balances # pre.balances
    /\ state.allowed # pre.allowed
    /\ state.total_supply > 0
    /\ state.total_supply = pre.total_supply
    /\ state.owner = pre.owner

\* The signed amount approve_relative applies: delta, or minus the allowance
\* when a negative delta reaches or exceeds it.
EffectiveDelta(A, delta) == IF delta < 0 /\ 0 - delta >= A THEN 0 - A ELSE delta

Max(a, b) == IF a >= b THEN a ELSE b

StoredInRange(st) ==
    /\ \A k \in DOMAIN st.balances : st.balances[k] \in U128
    /\ \A o \in DOMAIN st.allowed :
          \A s \in DOMAIN st.allowed[o] : st.allowed[o][s] \in U128

\* C16: every value stored by a successful call is the exact sum and lies in
\* 0..U128_MAX; a transfer or transfer_from whose receiver balance plus amount
\* exceeds U128_MAX aborts with BalanceOverflow, and an approve_relative whose
\* allowance plus delta, or balance plus delta, exceeds the signed range aborts
\* with AllowanceOverflow, or BalanceOverflow; no wrapped value is stored.
C16_NoSilentOverflow ==
    /\ StoredInRange(state)
    /\ Returned("transfer") =>
          LET read == IF last.to = last.sender
                      THEN balance_of(pre, last.to) - last.amount
                      ELSE balance_of(pre, last.to)
          IN  /\ last.ok => balance_of(state, last.to) = read + last.amount
              /\ ( /\ last.amount <= balance_of(pre, last.sender)
                   /\ read + last.amount > U128_MAX )
                 => ~last.ok /\ last.err = "BalanceOverflow" /\ state = pre
    /\ Returned("transfer_from") =>
          /\ last.ok => balance_of(state, last.to) =
                            balance_of(pre, last.to) + last.amount
          /\ ( /\ last.amount <= allowance(pre, last.from, last.sender)
               /\ balance_of(pre, last.to) + last.amount > U128_MAX )
             => ~last.ok /\ last.err = "BalanceOverflow" /\ state = pre
    /\ ( /\ Returned("approve_relative")
         /\ balance_of(pre, last.sender) <= I128_MAX
         /\ allowance(pre, last.sender, last.to) <= I128_MAX ) =>
          LET A == allowance(pre, last.sender, last.to)
              B == balance_of(pre, last.sender)
              d == EffectiveDelta(A, last.amount)
          IN  /\ last.ok => /\ allowance(state, last.sender, last.to) = A + d
                            /\ balance_of(state, last.sender) = B + d
              /\ A + d > I128_MAX
                 => ~last.ok /\ last.err = "AllowanceOverflow" /\ state = pre
              /\ (A + d <= I128_MAX /\ B + d > I128_MAX)
                 => ~last.ok /\ last.err = "BalanceOverflow" /\ state = pre

C16_Witness ==
    /\ Returned("transfer_from") /\ ~last.ok
    /\ last.err = "BalanceOverflow"
    /\ balance_of(pre, last.to) + last.amount > U128_MAX
    /\ balance_of(pre, last.to) + last.amount - (U128_MAX + 1) > 0
    /\ state = pre

C16_WitnessAllowanceOverflow ==
    /\ Returned("approve_relative") /\ ~last.ok
    /\ last.err = "AllowanceOverflow"
    /\ allowance(pre, last.sender, last.to) > 0

\* C17: whenever balance_of(caller) or allowance(caller, spender) exceeds
\* I128_MAX, approve_relative aborts with ConversionError for every delta,
\* 0 included, before any write, and the state is unchanged.
C17_CheckedConversion ==
    ( /\ Returned("approve_relative")
      /\ \/ balance_of(pre, last.sender) > I128_MAX
         \/ allowance(pre, last.sender, last.to) > I128_MAX )
    => /\ ~last.ok
       /\ last.err = "ConversionError"
       /\ last.local = pre
       /\ state = pre

C17_Witness ==
    /\ Returned("approve_relative") /\ ~last.ok
    /\ last.err = "ConversionError"
    /\ last.amount = 0
    /\ balance_of(pre, last.sender) <= I128_MAX
    /\ allowance(pre, last.sender, last.to) > I128_MAX

C17_WitnessBalance ==
    /\ Returned("approve_relative") /\ ~last.ok
    /\ last.err = "ConversionError"
    /\ balance_of(pre, last.sender) > I128_MAX
    /\ pre.balances[last.sender] = pre.total_supply

\* C18: once the balance and the allowance A are converted, the clamped sum
\* A + delta is never negative, for every delta down to I128_MIN: the
\* allowance conversion does not fail (a ConversionError can only come after
\* the allowance has been written) and for a negative delta the allowance
\* written is max(A + delta, 0).
C18_ClampNeverNegative ==
    ( /\ Returned("approve_relative")
      /\ balance_of(pre, last.sender) <= I128_MAX
      /\ allowance(pre, last.sender, last.to) <= I128_MAX )
    => LET A == allowance(pre, last.sender, last.to)
       IN  /\ (~last.ok /\ last.err = "ConversionError") =>
                 allowance(last.local, last.sender, last.to) # A
           /\ last.amount < 0 =>
                 allowance(last.local, last.sender, last.to) =
                     Max(A + last.amount, 0)

C18_Witness ==
    /\ Returned("approve_relative")
    /\ last.amount = I128_MIN
    /\ allowance(pre, last.sender, last.to) > 0
    /\ allowance(pre, last.sender, last.to) <= I128_MAX
    /\ balance_of(pre, last.sender) <= I128_MAX
    /\ allowance(last.local, last.sender, last.to) = 0

RECURSIVE SumAllowed(_)
SumAllowed(allowed) ==
    IF DOMAIN allowed = {} THEN 0
    ELSE LET o == CHOOSE x \in DOMAIN allowed : TRUE
         IN  SumMap(allowed[o]) + SumAllowed(MapRemove(allowed, o))

Escrow(st) == SumMap(st.balances) + SumAllowed(st.allowed)

\* C19: without approve_relative, the sum of all balances plus the sum of all
\* allowances never exceeds total_supply; transfer and transfer_from keep that
\* combined sum and a successful approve lowers it by the allowance it
\* overwrites.
C19_EscrowBound ==
    /\ Escrow(state) <= state.total_supply
    /\ (Returned("transfer") \/ Returned("transfer_from")) =>
          Escrow(state) = Escrow(pre)
    /\ Returned("approve") =>
          Escrow(state) = Escrow(pre) -
              (IF last.ok THEN allowance(pre, last.sender, last.to) ELSE 0)

C19_Witness ==
    /\ Returned("approve") /\ last.ok
    /\ allowance(pre, last.sender, last.to) > 0
    /\ Escrow(state) < Escrow(pre)
    /\ Escrow(state) < state.total_supply
    /\ Escrow(state) > 0

C19_WitnessTransferFrom ==
    /\ Returned("transfer_from") /\ last.ok
    /\ last.amount > 0
    /\ Escrow(state) = state.total_supply

C20_WitnessClamped ==
    /\ Returned("approve_relative") /\ last.ok
    /\ last.amount < 0
    /\ 0 - last.amount > allowance(pre, last.sender, last.to)
    /\ allowance(pre, last.sender, last.to) > 0
====
